---- MODULE Spec2Model ----
(***************************************************************************)
(* school_center.py: the preference table built by read_prefs, the         *)
(* candidate selection of centers_within_distance and the allocation loop  *)
(* of allocate_students_to_centers.                                        *)
(*                                                                         *)
(* A Python dict is a function whose DOMAIN is the set of its keys.  A     *)
(* Center object is named by its index in the list `centers`; Python's     *)
(* None is index 0.  All schools and centers lie on one meridian, and a    *)
(* latitude is counted in steps of 1/6371 radian, so that the great-circle *)
(* distance of two points is the difference of their latitudes, in km.     *)
(***************************************************************************)
EXTENDS Integers, Sequences, FiniteSets, TLC

VARIABLES
    pref_rows,            \* the rows of the preference file (read_prefs)
    rowIdx,               \* read_prefs: the next row of the file
    prefs,                \* global prefs: scode -> (cscode -> score)
    schools,              \* list of School
    centers,              \* list of Center
    has_distance_km,      \* whether the Center objects carry a distance_km
    allocations,          \* global allocations: scode -> (cscode -> count)
    remaining_students,   \* allocate_students_to_centers: local
    schoolIdx,            \* position of `for school in schools`
    centers_for_school,   \* the candidate list of the current school
    candIdx,              \* position of `for center in centers_for_school`
    students_to_allocate, \* local of the current school
    per_center,           \* local of the current school
    intermediate_rows,    \* rows written to school-center-distance.tsv
    allocation_rows,      \* rows written to the output file
    printed,              \* the "left for" lines printed
    pc,                   \* where the program is
    error                 \* the exception that ended the run, or "none"

vars == <<pref_rows, rowIdx, prefs, schools, centers, has_distance_km,
          allocations, remaining_students, schoolIdx, centers_for_school,
          candIdx, students_to_allocate, per_center, intermediate_rows,
          allocation_rows, printed, pc, error>>

(***************************************************************************)
(* Constants of the program                                                *)
(***************************************************************************)
PREF_DISTANCE_THRESHOLD == 2
MIN_STUDENT_IN_CENTER == 10
PREF_CUTOFF == -4
UniformLow == 1
UniformHigh == 5
None == 0

(***************************************************************************)
(* Bounds and input values                                                 *)
(***************************************************************************)
MaxSchools == 2
MaxCenters == 2
MaxPrefRows == 3

SchoolCodes == {"A", "B"}
CenterCodes == {"A", "B", "C"}
Counts == {0, 7, 25}
Capacities == {0, 4, 30}
SchoolLats == {0}
CenterLats == {2, 3}
PrefFileCenterCodes == {"A", "B"}
PrefValues == {-3, -2, 0, 2}

Min(a, b) == IF a <= b THEN a ELSE b
Min3(a, b, c) == Min(a, Min(b, c))

(***************************************************************************)
(* dict                                                                    *)
(***************************************************************************)
EmptyDict == [k \in {} |-> 0]

DictHas(d, k) == k \in DOMAIN d

DictPut(d, k, v) == [x \in DOMAIN d \cup {k} |-> IF x = k THEN v ELSE d[x]]

\* bool(d.get(k)) for a dict of dicts: the key is there and its dict is not empty
TruthyDictAt(d, k) == DictHas(d, k) /\ DOMAIN d[k] # {}

\* bool(d.get(k)) for a dict of ints: the key is there and its value is not 0
TruthyIntAt(d, k) == DictHas(d, k) /\ d[k] # 0

(***************************************************************************)
(* haversine_distance, for two points of one meridian                      *)
(***************************************************************************)
haversine_distance(lat1, lat2) == IF lat1 >= lat2 THEN lat1 - lat2 ELSE lat2 - lat1

(***************************************************************************)
(* read_prefs                                                              *)
(***************************************************************************)
\* read_prefs_row with `=` where line 64 has `+=`
read_prefs_row_Overwrite(p, row) ==
    IF TruthyDictAt(p, row.scode)
    THEN DictPut(p, row.scode, DictPut(p[row.scode], row.cscode, row.pref))
    ELSE DictPut(p, row.scode, DictPut(EmptyDict, row.cscode, row.pref))

\* the body of `for row in reader`
read_prefs_row(p, row) ==
    IF TruthyDictAt(p, row.scode)
    THEN IF TruthyIntAt(p[row.scode], row.cscode)
         THEN DictPut(p, row.scode,
                      DictPut(p[row.scode], row.cscode,
                              p[row.scode][row.cscode] + row.pref))
         ELSE DictPut(p, row.scode, DictPut(p[row.scode], row.cscode, row.pref))
    ELSE DictPut(p, row.scode, DictPut(EmptyDict, row.cscode, row.pref))

RECURSIVE read_prefs_upto(_, _)
read_prefs_upto(rows, n) ==
    IF n = 0 THEN EmptyDict ELSE read_prefs_row(read_prefs_upto(rows, n - 1), rows[n])

read_prefs(rows) == read_prefs_upto(rows, Len(rows))

(***************************************************************************)
(* get_pref                                                                *)
(***************************************************************************)
get_pref_in(p, scode, cscode) ==
    IF TruthyDictAt(p, scode)
    THEN IF DictHas(p[scode], cscode) THEN p[scode][cscode] ELSE 0
    ELSE 0

get_pref(scode, cscode) == get_pref_in(prefs, scode, cscode)

(***************************************************************************)
(* centers_within_distance                                                 *)
(***************************************************************************)
distance_to(school, cs, i) == haversine_distance(school.lat, cs[i].lat)

\* IsSelf without the test of line 78
IsSelf_Never(school, cs, i) == FALSE

\* `if school.scode == center.cscode: continue`
IsSelf(school, cs, i) == school.scode = cs[i].cscode

\* IsNearer with `>` where line 81 has `<`
IsNearer_Farther(scan, distance) ==
    scan.nearest_center = None \/ distance > scan.nearest_distance

\* `nearest_center is None or distance < nearest_distance`
IsNearer(scan, distance) ==
    scan.nearest_center = None \/ distance < scan.nearest_distance

\* IsEligible with `>=` where line 85 has `>`
IsEligible_AtCutoff(school, cs, i, distance_threshold) ==
    /\ haversine_distance(school.lat, cs[i].lat) <= distance_threshold
    /\ get_pref(school.scode, cs[i].cscode) >= PREF_CUTOFF

\* `distance <= distance_threshold and get_pref(...) > PREF_CUTOFF`
IsEligible(school, cs, i, distance_threshold) ==
    /\ distance_to(school, cs, i) <= distance_threshold
    /\ get_pref(school.scode, cs[i].cscode) > PREF_CUTOFF

\* the locals after the first n rounds of `for center in centers`
RECURSIVE ScanCenters(_, _, _, _)
ScanCenters(school, cs, distance_threshold, n) ==
    IF n = 0
    THEN [within_distance |-> <<>>, nearest_distance |-> 0, nearest_center |-> None]
    ELSE LET scan == ScanCenters(school, cs, distance_threshold, n - 1)
             distance == distance_to(school, cs, n)
             near == IF IsNearer(scan, distance)
                     THEN [scan EXCEPT !.nearest_center = n,
                                       !.nearest_distance = distance]
                     ELSE scan
         IN  IF IsSelf(school, cs, n)
             THEN scan
             ELSE IF IsEligible(school, cs, n, distance_threshold)
                  THEN [near EXCEPT !.within_distance = Append(@, n)]
                  ELSE near

\* sorted(): ascending by key, equal keys in their order in the list
RECURSIVE InsertByKey(_, _, _)
InsertByKey(sortedSeq, x, key) ==
    IF sortedSeq = <<>>
    THEN <<x>>
    ELSE IF key[Head(sortedSeq)] <= key[x]
         THEN <<Head(sortedSeq)>> \o InsertByKey(Tail(sortedSeq), x, key)
         ELSE <<x>> \o sortedSeq

RECURSIVE SortedUpto(_, _, _)
SortedUpto(s, key, n) ==
    IF n = 0 THEN <<>> ELSE InsertByKey(SortedUpto(s, key, n - 1), s[n], key)

\* key=lambda x: random.uniform(1, 5) * x.capacity, uniform[k] the draw for the
\* k-th center of within_distance
SortKey(cs, within_distance, uniform) ==
    [k \in DOMAIN within_distance |-> uniform[k] * cs[within_distance[k]].capacity]

\* sorted(within_distance, key=...)
sorted(cs, within_distance, uniform) ==
    LET order == SortedUpto([k \in DOMAIN within_distance |-> k],
                            SortKey(cs, within_distance, uniform),
                            Len(within_distance))
    IN  [k \in DOMAIN within_distance |-> within_distance[order[k]]]

\* the draws of random.uniform(1, 5), one for each center of within_distance
UniformDraws(within_distance) == [DOMAIN within_distance -> UniformLow..UniformHigh]

WithinDistance(school, cs, distance_threshold) ==
    ScanCenters(school, cs, distance_threshold, Len(cs)).within_distance

centers_within_distance(school, cs, distance_threshold, uniform) ==
    LET scan == ScanCenters(school, cs, distance_threshold, Len(cs))
    IN  IF scan.within_distance # <<>>
        THEN sorted(cs, scan.within_distance, uniform)
        ELSE <<scan.nearest_center>>

(***************************************************************************)
(* allocate, is_allocated                                                  *)
(***************************************************************************)
allocate(a, scode, cscode, count) ==
    IF ~DictHas(a, scode)
    THEN DictPut(a, scode, DictPut(EmptyDict, cscode, count))
    ELSE IF ~DictHas(a[scode], cscode)
         THEN DictPut(a, scode, DictPut(a[scode], cscode, count))
         ELSE DictPut(a, scode, DictPut(a[scode], cscode, a[scode][cscode] + count))

is_allocated(scode1, scode2) ==
    IF TruthyDictAt(allocations, scode1)
    THEN DictHas(allocations[scode1], scode2)
    ELSE FALSE

\* `is_allocated(center.cscode, school.scode)` in the loop of the candidates
GuardSkips(school, center) == is_allocated(center.cscode, school.scode)

\* NextAllocation without students_to_allocate
NextAllocation_NotStudents(center) == Min(per_center, center.capacity)

\* NextAllocation without per_center
NextAllocation_NotPerCenter(center) == Min(students_to_allocate, center.capacity)

\* `min(students_to_allocate, per_center, center.capacity)`
NextAllocation(center) == Min3(students_to_allocate, per_center, center.capacity)

\* `per_center = min(students_to_allocate, MIN_STUDENT_IN_CENTER)`
PerCenter(count) == Min(count, MIN_STUDENT_IN_CENTER)

(***************************************************************************)
(* Inputs                                                                  *)
(***************************************************************************)
School == [scode : SchoolCodes, count : Counts, lat : SchoolLats]
Center == [cscode : CenterCodes, capacity : Capacities, lat : CenterLats]
PrefRow == [scode : SchoolCodes, cscode : PrefFileCenterCodes, pref : PrefValues]

SeqsUpTo(S, n) == UNION {[1..k -> S] : k \in 0..n}

\* the codes are unique ids
DistinctSchools(s) == \A i, j \in DOMAIN s : s[i].scode = s[j].scode => i = j
DistinctCenters(s) == \A i, j \in DOMAIN s : s[i].cscode = s[j].cscode => i = j

SchoolLists == {s \in SeqsUpTo(School, MaxSchools) : DistinctSchools(s)}
CenterLists == {s \in SeqsUpTo(Center, MaxCenters) : DistinctCenters(s)}

\* the tables of the runs: no row, or one row whose score is the cutoff or above it
RunPrefRows == [scode : SchoolCodes, cscode : CenterCodes, pref : {PREF_CUTOFF, PREF_CUTOFF + 1}]
RunPrefs == {EmptyDict} \cup {read_prefs(<<r>>) : r \in RunPrefRows}

(***************************************************************************)
(* The run of allocate_students_to_centers                                 *)
(*                                                                         *)
(* Lines 131 and 137 read center.distance_km, which class Center (lines    *)
(* 23-30) does not set: with the centers __main__ builds, has_distance_km  *)
(* is FALSE.  It is TRUE for centers on which the caller of                *)
(* allocate_students_to_centers has set the attribute, the one case in     *)
(* which the loop gets past its first candidate.                           *)
(***************************************************************************)
Init ==
    /\ pref_rows = <<>>
    /\ rowIdx = 1
    /\ prefs \in RunPrefs
    /\ schools \in SchoolLists
    /\ centers \in CenterLists
    /\ has_distance_km \in BOOLEAN
    /\ allocations = EmptyDict
    /\ remaining_students = 0
    /\ schoolIdx = 1
    /\ centers_for_school = <<>>
    /\ candIdx = 1
    /\ students_to_allocate = 0
    /\ per_center = 0
    /\ intermediate_rows = <<>>
    /\ allocation_rows = <<>>
    /\ printed = <<>>
    /\ pc = "for_school"
    /\ error = "none"

Inputs == <<pref_rows, rowIdx, prefs, schools, centers, has_distance_km>>

Raise(e) ==
    /\ pc' = "raised"
    /\ error' = e

\* lines 123-128: the next school, its candidates and its locals
NextSchool ==
    /\ pc = "for_school"
    /\ schoolIdx <= Len(schools)
    /\ \E uniform \in UniformDraws(WithinDistance(schools[schoolIdx], centers,
                                                   PREF_DISTANCE_THRESHOLD)) :
         centers_for_school' =
             centers_within_distance(schools[schoolIdx], centers,
                                     PREF_DISTANCE_THRESHOLD, uniform)
    /\ students_to_allocate' = schools[schoolIdx].count
    /\ per_center' = PerCenter(schools[schoolIdx].count)
    /\ candIdx' = 1
    /\ pc' = "for_center"
    /\ UNCHANGED <<Inputs, allocations, remaining_students, schoolIdx,
                   intermediate_rows, allocation_rows, printed, error>>

\* lines 130-131 on the candidate None: None has no cscode
VisitNone ==
    /\ pc = "for_center"
    /\ candIdx <= Len(centers_for_school)
    /\ centers_for_school[candIdx] = None
    /\ Raise("AttributeError: 'NoneType' object has no attribute 'cscode'")
    /\ UNCHANGED <<Inputs, allocations, remaining_students, schoolIdx,
                   centers_for_school, candIdx, students_to_allocate, per_center,
                   intermediate_rows, allocation_rows, printed>>

\* lines 130-131 on a Center that carries no distance_km
VisitNoDistance ==
    /\ pc = "for_center"
    /\ candIdx <= Len(centers_for_school)
    /\ centers_for_school[candIdx] # None
    /\ ~has_distance_km
    /\ Raise("AttributeError: 'Center' object has no attribute 'distance_km'")
    /\ UNCHANGED <<Inputs, allocations, remaining_students, schoolIdx,
                   centers_for_school, candIdx, students_to_allocate, per_center,
                   intermediate_rows, allocation_rows, printed>>

\* lines 130-138: one round of `for center in centers_for_school`
VisitCandidate ==
    /\ pc = "for_center"
    /\ candIdx <= Len(centers_for_school)
    /\ centers_for_school[candIdx] # None
    /\ has_distance_km
    /\ LET school == schools[schoolIdx]
           center == centers[centers_for_school[candIdx]]
           next_allocation == NextAllocation(center)
       IN  /\ intermediate_rows' =
                 Append(intermediate_rows,
                        [scode |-> school.scode, cscode |-> center.cscode])
           /\ IF ~GuardSkips(school, center) /\ next_allocation > 0
              THEN /\ allocations' = allocate(allocations, school.scode,
                                              center.cscode, next_allocation)
                   /\ allocation_rows' =
                         Append(allocation_rows,
                                [scode |-> school.scode, cscode |-> center.cscode,
                                 allocation |-> next_allocation])
                   /\ students_to_allocate' = students_to_allocate - next_allocation
              ELSE UNCHANGED <<allocations, allocation_rows, students_to_allocate>>
    /\ candIdx' = candIdx + 1
    /\ UNCHANGED <<Inputs, remaining_students, schoolIdx, centers_for_school,
                   per_center, printed, pc, error>>

\* lines 140-142: the candidates are exhausted
FinishSchool ==
    /\ pc = "for_center"
    /\ candIdx > Len(centers_for_school)
    /\ IF students_to_allocate > 0
       THEN /\ remaining_students' = remaining_students + students_to_allocate
            /\ printed' = Append(printed,
                                 [scode |-> schools[schoolIdx].scode,
                                  left |-> students_to_allocate,
                                  count |-> schools[schoolIdx].count,
                                  centers |-> Len(centers_for_school)])
       ELSE UNCHANGED <<remaining_students, printed>>
    /\ schoolIdx' = schoolIdx + 1
    /\ pc' = "for_school"
    /\ UNCHANGED <<Inputs, allocations, centers_for_school, candIdx,
                   students_to_allocate, per_center, intermediate_rows,
                   allocation_rows, error>>

\* lines 144-145: the name centers_remaining_cap is bound nowhere
Summary ==
    /\ pc = "for_school"
    /\ schoolIdx > Len(schools)
    /\ Raise("NameError: name 'centers_remaining_cap' is not defined")
    /\ UNCHANGED <<Inputs, allocations, remaining_students, schoolIdx,
                   centers_for_school, candIdx, students_to_allocate, per_center,
                   intermediate_rows, allocation_rows, printed>>

Next ==
    \/ NextSchool
    \/ VisitNone
    \/ VisitNoDistance
    \/ VisitCandidate
    \/ FinishSchool
    \/ Summary

Spec == Init /\ [][Next]_vars

(***************************************************************************)
(* The run of read_prefs over a preference file                            *)
(***************************************************************************)
InitPrefs ==
    /\ pref_rows \in SeqsUpTo(PrefRow, MaxPrefRows)
    /\ rowIdx = 1
    /\ prefs = EmptyDict
    /\ schools = <<>>
    /\ centers = <<>>
    /\ has_distance_km = FALSE
    /\ allocations = EmptyDict
    /\ remaining_students = 0
    /\ schoolIdx = 1
    /\ centers_for_school = <<>>
    /\ candIdx = 1
    /\ students_to_allocate = 0
    /\ per_center = 0
    /\ intermediate_rows = <<>>
    /\ allocation_rows = <<>>
    /\ printed = <<>>
    /\ pc = "read_prefs"
    /\ error = "none"

RunState == <<schools, centers, has_distance_km, allocations, remaining_students,
              schoolIdx, centers_for_school, candIdx, students_to_allocate,
              per_center, intermediate_rows, allocation_rows, printed, error>>

\* lines 61-68: one round of `for row in reader`
ReadPrefsRow ==
    /\ pc = "read_prefs"
    /\ rowIdx <= Len(pref_rows)
    /\ prefs' = read_prefs_row(prefs, pref_rows[rowIdx])
    /\ rowIdx' = rowIdx + 1
    /\ UNCHANGED <<pref_rows, pc, RunState>>

\* line 69: `return prefs`
ReadPrefsReturn ==
    /\ pc = "read_prefs"
    /\ rowIdx > Len(pref_rows)
    /\ pc' = "prefs_read"
    /\ UNCHANGED <<pref_rows, rowIdx, prefs, RunState>>

NextPrefs ==
    \/ ReadPrefsRow
    \/ ReadPrefsReturn

SpecPrefs == InitPrefs /\ [][NextPrefs]_vars

(***************************************************************************)
(* What the properties speak of                                            *)
(***************************************************************************)
RECURSIVE SumFn(_)
SumFn(f) ==
    IF DOMAIN f = {}
    THEN 0
    ELSE LET k == CHOOSE x \in DOMAIN f : TRUE
         IN  f[k] + SumFn([x \in DOMAIN f \ {k} |-> f[x]])

\* the seats the ledger holds in the center of this code, over all schools
GrantsInto(cscode) ==
    SumFn([s \in DOMAIN allocations |->
              IF cscode \in DOMAIN allocations[s] THEN allocations[s][cscode] ELSE 0])

\* the seats the ledger holds for the school of this code, over all centers
GrantsOutOf(scode) ==
    IF scode \in DOMAIN allocations THEN SumFn(allocations[scode]) ELSE 0

\* the shortfall printed for the school of this code, 0 when none was printed
ReportedShortfall(scode) ==
    SumFn([k \in DOMAIN printed |->
              IF printed[k].scode = scode THEN printed[k].left ELSE 0])

\* the schools whose candidates have all been visited
Processed == {i \in DOMAIN schools : i < schoolIdx}

NonSelf(i) == {j \in DOMAIN centers : centers[j].cscode # schools[i].scode}

\* the score of the pair in the table, 0 for a pair the table does not hold
Score(scode, cscode) ==
    IF scode \in DOMAIN prefs /\ cscode \in DOMAIN prefs[scode]
    THEN prefs[scode][cscode]
    ELSE 0

Km(i, j) ==
    IF schools[i].lat >= centers[j].lat
    THEN schools[i].lat - centers[j].lat
    ELSE centers[j].lat - schools[i].lat

\* the eligible centers of school i, as section 4.3 of the specification has them
EligibleFor(i) ==
    {j \in NonSelf(i) :
        /\ Km(i, j) <= PREF_DISTANCE_THRESHOLD
        /\ Score(schools[i].scode, centers[j].cscode) > PREF_CUTOFF}

SchoolOf(scode) == CHOOSE i \in DOMAIN schools : schools[i].scode = scode
CenterOf(cscode) == CHOOSE j \in DOMAIN centers : centers[j].cscode = cscode

\* the sum of the scores of the first n rows of the pair
RowSum(n, scode, cscode) ==
    SumFn([k \in 1..n |->
              IF pref_rows[k].scode = scode /\ pref_rows[k].cscode = cscode
              THEN pref_rows[k].pref
              ELSE 0])

QueryCodes == SchoolCodes \cup CenterCodes

\* the seats of center j that the ledger has not granted
SeatsLeft(j) == centers[j].capacity - GrantsInto(centers[j].cscode)

C3_NeverAborts == pc # "raised"

(***************************************************************************)
(* C4.  NoCandidateAvailable is not fatal: the run does not end at a       *)
(* school that has no center of another code, and once such a school is    *)
(* processed it holds no grant and its shortfall is its student count.     *)
(***************************************************************************)
C4_NoCandidateNonFatal ==
    \A i \in DOMAIN schools :
        NonSelf(i) = {} =>
            /\ ~(pc = "raised" /\ schoolIdx = i)
            /\ i \in Processed =>
                  /\ GrantsOutOf(schools[i].scode) = 0
                  /\ ReportedShortfall(schools[i].scode) = schools[i].count

C7_FallbackGuarantee ==
    (pc = "for_center" /\ NonSelf(schoolIdx) # {}) =>
        /\ Len(centers_for_school) >= 1
        /\ \A k \in DOMAIN centers_for_school : centers_for_school[k] \in DOMAIN centers
        /\ EligibleFor(schoolIdx) = {} =>
              /\ Len(centers_for_school) = 1
              /\ centers_for_school[1] \in NonSelf(schoolIdx)
              /\ \A j \in NonSelf(schoolIdx) :
                    Km(schoolIdx, centers_for_school[1]) <= Km(schoolIdx, j)

\* no center is eligible, and the candidate is the second of two centers of
\* another code, nearer than the first and with a score at the cutoff
C7_Witness ==
    /\ pc = "for_center"
    /\ Cardinality(NonSelf(schoolIdx)) = 2
    /\ EligibleFor(schoolIdx) = {}
    /\ centers_for_school = <<2>>
    /\ Km(schoolIdx, 2) < Km(schoolIdx, 1)
    /\ Score(schools[schoolIdx].scode, centers[2].cscode) <= PREF_CUTOFF

(***************************************************************************)
(* C8.  Preference aggregation: after any number of rows, the table's      *)
(* score of a pair is the sum of the scores of the rows read for the pair, *)
(* and the lookup gives that sum, 0 for a pair or a school not in the      *)
(* table.                                                                  *)
(***************************************************************************)
C8_PreferenceAggregation ==
    /\ \A s \in DOMAIN prefs : \A c \in DOMAIN prefs[s] :
          prefs[s][c] = RowSum(rowIdx - 1, s, c)
    /\ \A s \in QueryCodes, c \in QueryCodes :
          get_pref_in(prefs, s, c) = RowSum(rowIdx - 1, s, c)

\* three rows of one pair are read, the first two summing to 0
C8_Witness ==
    /\ pc = "prefs_read"
    /\ Len(pref_rows) = 3
    /\ \A k \in 1..3 :
          /\ pref_rows[k].scode = pref_rows[1].scode
          /\ pref_rows[k].cscode = pref_rows[1].cscode
    /\ pref_rows[1].pref # 0
    /\ pref_rows[1].pref + pref_rows[2].pref = 0
    /\ pref_rows[3].pref < 0
    /\ get_pref_in(prefs, pref_rows[1].scode, pref_rows[1].cscode) = pref_rows[3].pref

CapOf(i) ==
    IF schools[i].count <= MIN_STUDENT_IN_CENTER
    THEN schools[i].count
    ELSE MIN_STUDENT_IN_CENTER

\* a step that writes an allocation row writes one row of the current school,
\* of a count above 0, within the cap and within the students unplaced before it
C10_Grant ==
    Len(allocation_rows') > Len(allocation_rows) =>
        LET row == allocation_rows'[Len(allocation_rows')]
        IN  /\ Len(allocation_rows') = Len(allocation_rows) + 1
            /\ row.scode = schools[schoolIdx].scode
            /\ row.allocation > 0
            /\ row.allocation <= CapOf(schoolIdx)
            /\ row.allocation <= students_to_allocate
            /\ students_to_allocate' = students_to_allocate - row.allocation
            /\ per_center' = per_center

====
